---- MODULE Spec2Model ----
(***************************************************************************)
(* Model of wirnnservice.domain.efd_utils.EfdClient: the credential        *)
(* resolver (_get_auth), the query operation (query), schema introspection *)
(* (get_schema_dtypes / get_fields), the response-to-table conversion      *)
(* (to_dataframe) and the query builder (select_time_series).              *)
(*                                                                         *)
(* Python strings that the code assembles are sequences of string tokens   *)
(* (concatenation is \o); None is the record [none |-> TRUE] and a         *)
(* provided value x is [some |-> x]; dicts are records whose DOMAIN is the *)
(* set of keys present; a pandas DataFrame is a record of its columns, its *)
(* row data, its index, the index label and the attribute "name".          *)
(***************************************************************************)
EXTENDS Integers, Sequences, FiniteSets, TLC

VARIABLES
    phase,      \* position of EfdClient.__init__: "new", "resolving", "ready", "failed"
    self,       \* the attributes __init__ has set on the client object
    authCall,   \* the _get_auth invocation: alias, url, requests sent, outcome
    calls,      \* per thread: the method invocation in progress
    last,       \* the most recently finished method invocation and its outcome
    fnOp,       \* pure-function harness: which function was applied
    fnIn,       \* pure-function harness: its arguments
    fnOut       \* pure-function harness: its result

vars == <<phase, self, authCall, calls, last, fnOp, fnIn, fnOut>>

(***************************************************************************)
(* Bounds                                                                  *)
(***************************************************************************)
MaxRows == 2        \* rows of a series in a response
MaxFields == 2      \* entries of the fields argument / raw schema list

(***************************************************************************)
(* Python values                                                           *)
(***************************************************************************)
None == [none |-> TRUE]
Some(x) == [some |-> x]
IsNone(o) == "none" \in DOMAIN o

Return(v) == [kind |-> "return", value |-> v]
Raise(exc, text, arg, cause) ==
    [kind |-> "raise", exc |-> exc, text |-> text, arg |-> arg, cause |-> cause]

RemoveAt(s, p) == [i \in 1..(Len(s) - 1) |-> IF i < p THEN s[i] ELSE s[i + 1]]

Contains(s, x) == \E i \in 1..Len(s) : s[i] = x

PosOf(s, x) == CHOOSE i \in 1..Len(s) : s[i] = x

\* sep.join(items) as a token sequence
RECURSIVE Join(_, _)
Join(sep, items) ==
    IF Len(items) = 0 THEN <<>>
    ELSE IF Len(items) = 1 THEN <<items[1]>>
    ELSE <<items[1], sep>> \o Join(sep, Tail(items))

(***************************************************************************)
(* astropy.time.Time: a scale and the seconds since 2021-01-01T00:00:00 on *)
(* that scale.  .utc converts to the UTC scale (TAI - UTC = 37 s), .isot   *)
(* formats the instant as an ISO string.                                   *)
(***************************************************************************)
TaiMinusUtc == 37

TimeUtc(t) ==
    IF t.scale = "utc" THEN t ELSE [scale |-> "utc", sec |-> t.sec - TaiMinusUtc]

TimeIsot(t) ==
    CASE t.sec = 0  -> "2021-01-01T00:00:00.000"
      [] t.sec = 37 -> "2021-01-01T00:00:37.000"
      [] t.sec = 60 -> "2021-01-01T00:01:00.000"
      [] t.sec = 97 -> "2021-01-01T00:01:37.000"

(***************************************************************************)
(* select_time_series, lines 206-228: the query string                     *)
(***************************************************************************)
SelectQueryAndBug(topic_name, fields, start_time, end_time, sal_index) ==
    <<"SELECT ">>
    \o (IF IsNone(fields) THEN <<"*">> ELSE Join(",", fields.some))
    \o <<" FROM \"", topic_name, "\"">>
    \o (IF ~IsNone(start_time) \/ ~IsNone(end_time) \/ ~IsNone(sal_index)
        THEN <<" WHERE">> ELSE <<>>)
    \o (IF ~IsNone(start_time)
        THEN <<" time >= '", TimeIsot(TimeUtc(start_time.some)), "Z'">>
             \o (IF ~IsNone(end_time) THEN <<" AND">> ELSE <<>>)
        ELSE <<>>)
    \o (IF ~IsNone(end_time)
        THEN <<" time <= '", TimeIsot(TimeUtc(end_time.some)), "Z'">>
        ELSE <<>>)
    \o (IF ~IsNone(sal_index)
        THEN (IF ~IsNone(end_time) THEN <<" AND">> ELSE <<>>)
             \o <<" salIndex = ", ToString(sal_index.some)>>
        ELSE <<>>)

SelectQuery(topic_name, fields, start_time, end_time, sal_index) ==
    <<"SELECT ">>
    \o (IF IsNone(fields) THEN <<"*">> ELSE Join(",", fields.some))
    \o <<" FROM \"", topic_name, "\"">>
    \o (IF ~IsNone(start_time) \/ ~IsNone(end_time) \/ ~IsNone(sal_index)
        THEN <<" WHERE">> ELSE <<>>)
    \o (IF ~IsNone(start_time)
        THEN <<" time >= '", TimeIsot(TimeUtc(start_time.some)), "Z'">>
             \o (IF ~IsNone(end_time) THEN <<" AND">> ELSE <<>>)
        ELSE <<>>)
    \o (IF ~IsNone(end_time)
        THEN <<" time <= '", TimeIsot(TimeUtc(end_time.some)), "Z'">>
        ELSE <<>>)
    \o (IF ~IsNone(sal_index)
        THEN (IF ~IsNone(start_time) \/ ~IsNone(end_time) THEN <<" AND">> ELSE <<>>)
             \o <<" salIndex = ", ToString(sal_index.some)>>
        ELSE <<>>)

(***************************************************************************)
(* get_schema_dtypes, lines 147-159, and get_fields, line 127              *)
(***************************************************************************)
FieldDtype(field_type) ==
    CASE field_type = "float"   -> "np.float64"
      [] field_type = "integer" -> "np.int64"
      [] field_type = "string"  -> "str"
      [] OTHER                  -> "object"

SchemaDtypesNoTime(values) ==
    [i \in 1..Len(values) |-> <<values[i][1], FieldDtype(values[i][2])>>]

SchemaDtypes(values) ==
    << <<"time", "str">> >>
    \o [i \in 1..Len(values) |-> <<values[i][1], FieldDtype(values[i][2])>>]

FieldNames(dtypes) == [i \in 1..Len(dtypes) |-> dtypes[i][1]]

(***************************************************************************)
(* pandas                                                                  *)
(***************************************************************************)
\* pd.DataFrame(values, columns=columns): default RangeIndex, no label
DataFrame(values, columns) ==
    [columns   |-> columns,
     data      |-> values,
     index     |-> [i \in 1..Len(values) |-> [pos |-> i - 1]],
     indexName |-> None,
     name      |-> None]

\* pd.DataFrame()
EmptyDataFrame == DataFrame(<<>>, <<>>)

\* pd.to_datetime on one RFC3339 string of a response: a tz-aware timestamp
ToDatetime(s) ==
    CASE s = "2021-01-01T00:00:00Z" -> [sec |-> 0, tz |-> "UTC"]
      [] s = "2021-01-01T00:00:01Z" -> [sec |-> 1, tz |-> "UTC"]
      [] s = "2021-01-01T00:00:02Z" -> [sec |-> 2, tz |-> "UTC"]
      [] s = "2021-01-01T00:00:03Z" -> [sec |-> 3, tz |-> "UTC"]

\* pd.to_datetime(data[c]): the converted column, which keeps the name c
ToDatetimeColumn(df, c) ==
    [name   |-> c,
     values |-> [i \in 1..Len(df.data) |-> ToDatetime(df.data[i][PosOf(df.columns, c)])]]

\* df.set_index(series): the index takes the series' values and its name
SetIndex(df, series) ==
    [df EXCEPT !.index = series.values, !.indexName = Some(series.name)]

\* df.drop(c, axis=1)
DropColumn(df, c) ==
    LET p == PosOf(df.columns, c)
    IN  [df EXCEPT !.columns = RemoveAt(df.columns, p),
                   !.data = [i \in 1..Len(df.data) |-> RemoveAt(df.data[i], p)]]

\* df[k] = v for a scalar v: overwrite column k, or append it
SetItem(df, k, v) ==
    IF Contains(df.columns, k)
    THEN LET p == PosOf(df.columns, k)
         IN  [df EXCEPT !.data = [i \in 1..Len(df.data) |->
                                    [df.data[i] EXCEPT ![p] = v]]]
    ELSE [df EXCEPT !.columns = Append(df.columns, k),
                    !.data = [i \in 1..Len(df.data) |-> Append(df.data[i], v)]]

\* df.name = v (DataFrame.__setattr__): a column called "name" is assigned
\* like df["name"] = v, otherwise v becomes a plain attribute of the object
SetAttrName(df, v) ==
    IF Contains(df.columns, "name")
    THEN SetItem(df, "name", v)
    ELSE [df EXCEPT !.name = Some(v)]

SetItemsFirstOnly(df, items) ==
    IF Len(items) = 0 THEN df ELSE SetItem(df, items[1][1], items[1][2])

\* for k, v in tags.items(): data[k] = v
RECURSIVE SetItems(_, _)
SetItems(df, items) ==
    IF Len(items) = 0 THEN df
    ELSE SetItems(SetItem(df, items[1][1], items[1][2]), Tail(items))

(***************************************************************************)
(* to_dataframe, lines 161-173                                             *)
(***************************************************************************)
ToDataframeTagsAlways(series) ==
    LET data == DataFrame(IF "values" \in DOMAIN series THEN series.values ELSE <<>>,
                          series.columns)
        tagged == IF "tags" \in DOMAIN series THEN SetItems(data, series.tags) ELSE data
    IN  IF ~Contains(data.columns, "time") THEN tagged
        ELSE LET indexed == DropColumn(SetIndex(data, ToDatetimeColumn(data, "time")),
                                       "time")
                 unlabelled == [indexed EXCEPT !.indexName = None]
                 withTags == IF "tags" \in DOMAIN series
                             THEN SetItems(unlabelled, series.tags)
                             ELSE unlabelled
             IN  IF "name" \in DOMAIN series
                 THEN SetAttrName(withTags, series.name)
                 ELSE withTags

ToDataframe(series) ==
    LET data == DataFrame(IF "values" \in DOMAIN series THEN series.values ELSE <<>>,
                          series.columns)
    IN  IF ~Contains(data.columns, "time") THEN data
        ELSE LET indexed == DropColumn(SetIndex(data, ToDatetimeColumn(data, "time")),
                                       "time")
                 unlabelled == [indexed EXCEPT !.indexName = None]
                 withTags == IF "tags" \in DOMAIN series
                             THEN SetItems(unlabelled, series.tags)
                             ELSE unlabelled
             IN  IF "name" \in DOMAIN series
                 THEN SetAttrName(withTags, series.name)
                 ELSE withTags

\* what to_dataframe leaves in the dict it was given: it only reads it
ToDataframeArgAfterPop(series) ==
    [k \in (DOMAIN series) \ {"tags"} |-> series[k]]

ToDataframeArgAfter(series) == series

(***************************************************************************)
(* Arguments and responses the operations are exercised with               *)
(***************************************************************************)
SeqsUpTo(S, n) == UNION {[1..k -> S] : k \in 0..n}

Topics == {"topic"}

FieldArgs == {None} \cup {Some(f) : f \in SeqsUpTo({"a", "b"}, MaxFields)}

StartTimes == {None, Some([scale |-> "utc", sec |-> 0]), Some([scale |-> "tai", sec |-> 97])}

EndTimes == {None, Some([scale |-> "utc", sec |-> 60]), Some([scale |-> "tai", sec |-> 37])}

SalIndices == {None, Some(0), Some(12)}

\* the [fieldName, fieldTypeString] pairs of a SHOW FIELD KEYS response
RawFieldLists ==
    SeqsUpTo({<<n, t>> : n \in {"a", "time"},
                         t \in {"float", "integer", "string", "boolean"}}, MaxFields)

TimeCell(i) ==
    CASE i = 1 -> "2021-01-01T00:00:00Z"
      [] i = 2 -> "2021-01-01T00:00:01Z"
      [] i = 3 -> "2021-01-01T00:00:02Z"
      [] OTHER -> "2021-01-01T00:00:03Z"

\* n rows under the given columns: RFC3339 text under "time", any text elsewhere
RowsFor(columns, n) ==
    [i \in 1..n |-> [j \in 1..Len(columns) |->
        IF columns[j] = "time" THEN TimeCell(i) ELSE columns[j] \o ToString(i)]]

ColumnLists ==
    {<<"time", "v">>, <<"v", "time">>, <<"time">>, <<"name", "time">>,
     <<"v", "w">>, <<"v">>}

\* tag keys: new ones, one that is also a column, and "name"; never "time",
\* which the database reserves for the timestamp
TagLists ==
    {<<>>, << <<"a", "x">> >>, << <<"v", "x">> >>, << <<"a", "x">>, <<"name", "y">> >>}

\* a series object: columns always, values / tags / name optional
MkSeries(columns, values, tags, name) ==
    [k \in {"columns"}
           \cup (IF IsNone(values) THEN {} ELSE {"values"})
           \cup (IF IsNone(tags) THEN {} ELSE {"tags"})
           \cup (IF IsNone(name) THEN {} ELSE {"name"}) |->
        CASE k = "columns" -> columns
          [] k = "values"  -> values.some
          [] k = "tags"    -> tags.some
          [] k = "name"    -> name.some]

SeriesOver(c) ==
    {MkSeries(c, v, t, n) :
        v \in {None} \cup {Some(RowsFor(c, k)) : k \in 0..MaxRows},
        t \in {None} \cup {Some(x) : x \in TagLists},
        n \in {None, Some("topic")}}

SeriesArgs == UNION {SeriesOver(c) : c \in ColumnLists}

(***************************************************************************)
(* The pure parts applied to drawn arguments                               *)
(***************************************************************************)
Threads == {"t1", "t2"}

Idle == [pc |-> "idle"]

\* before EfdClient(...) is called: no object, no call in progress
InitClient ==
    /\ phase = "new"
    /\ self = [none |-> TRUE]
    /\ authCall = Idle
    /\ calls = [t \in Threads |-> Idle]
    /\ last = Idle

InitFn ==
    /\ InitClient
    /\ fnOp = "none"
    /\ fnIn = None
    /\ fnOut = None

ApplySelectQuery ==
    \E topic_name \in Topics, fields \in FieldArgs, start_time \in StartTimes,
       end_time \in EndTimes, sal_index \in SalIndices :
        /\ fnOp' = "select_query"
        /\ fnIn' = [topic_name |-> topic_name, fields |-> fields,
                    start_time |-> start_time, end_time |-> end_time,
                    sal_index |-> sal_index]
        /\ fnOut' = SelectQuery(topic_name, fields, start_time, end_time, sal_index)
        /\ UNCHANGED <<phase, self, authCall, calls, last>>

ApplySchemaDtypes ==
    \E values \in RawFieldLists :
        /\ fnOp' = "schema"
        /\ fnIn' = values
        /\ fnOut' = [dtypes |-> SchemaDtypes(values),
                     fields |-> FieldNames(SchemaDtypes(values))]
        /\ UNCHANGED <<phase, self, authCall, calls, last>>

ApplyToDataframe ==
    \E series \in SeriesArgs :
        /\ fnOp' = "to_dataframe"
        /\ fnIn' = series
        /\ fnOut' = ToDataframe(series)
        /\ UNCHANGED <<phase, self, authCall, calls, last>>

NextFn == ApplySelectQuery \/ ApplySchemaDtypes \/ ApplyToDataframe

SpecFn == InitFn /\ [][NextFn]_vars

(***************************************************************************)
(* URLs: scheme, host and the path as its "/"-separated segments (a        *)
(* trailing "/" is a final empty segment).  A reference is a path text,    *)
(* absolute (leading "/") or relative.                                     *)
(***************************************************************************)
AbsPath(segs) == [absolute |-> TRUE, segs |-> segs]
RelPath(segs) == [absolute |-> FALSE, segs |-> segs]

HttpsRoot(host) == [scheme |-> "https", host |-> host, path |-> <<>>]

\* urllib.parse.urljoin(base, ref) for a path reference
UrlJoin(base, ref) ==
    IF ref.absolute THEN [base EXCEPT !.path = ref.segs]
    ELSE [base EXCEPT !.path =
            (IF Len(base.path) = 0 THEN <<>> ELSE SubSeq(base.path, 1, Len(base.path) - 1))
            \o ref.segs]

\* f"{url}/query"
UrlSlash(url, seg) == [url EXCEPT !.path = url.path \o <<seg>>]

\* line 69
service_endpoint ==
    [scheme |-> "https", host |-> "roundtable.lsst.codes", path |-> <<"segwarides", "">>]

AuthTimeout == 30
ConnectTimeout == 30
ReadTimeout == 120

(***************************************************************************)
(* HTTP responses: requests.get either raises a transport exception or     *)
(* returns the final response, with a status code and a JSON body (both    *)
(* endpoints answer in JSON).  One call of requests.get is one request of  *)
(* the client; redirects that requests follows by itself are inside it.    *)
(***************************************************************************)
TransportError(exc) == [kind |-> "error", exc |-> exc]
Response(status_code, body) ==
    [kind |-> "response", status_code |-> status_code, body |-> body]

RaisesForStatus5xxOnly(status_code) == status_code >= 500 /\ status_code < 600

\* response.raise_for_status(): HTTPError for 4xx and 5xx
RaisesForStatus(status_code) == status_code >= 400 /\ status_code < 600

\* obj[key] on a dict, obj[0] on a list, propagating an earlier exception
GetKey(o, key) ==
    IF o.kind = "raise" THEN o
    ELSE IF key \in DOMAIN o.value THEN Return(o.value[key])
    ELSE Raise("KeyError", key, None, None)

GetFirst(o) ==
    IF o.kind = "raise" THEN o
    ELSE IF Len(o.value) > 0 THEN Return(o.value[1])
    ELSE Raise("IndexError", "list index out of range", None, None)

(***************************************************************************)
(* _get_auth, lines 69-76                                                  *)
(***************************************************************************)
GetAuthUrl(instance_alias) == UrlJoin(service_endpoint, RelPath(<<"creds", instance_alias>>))

GetAuthRequest(instance_alias) ==
    [method |-> "GET", url |-> GetAuthUrl(instance_alias), timeout |-> <<AuthTimeout>>]

GetAuthSend(instance_alias) ==
    [pc |-> "sent", alias |-> instance_alias, url |-> GetAuthUrl(instance_alias),
     sent |-> <<GetAuthRequest(instance_alias)>>, bodyRead |-> FALSE]

GetAuthRecvAny2xx(call, resp) ==
    IF resp.kind = "error"
    THEN [pc |-> "done", alias |-> call.alias, url |-> call.url, sent |-> call.sent,
          resp |-> resp, bodyRead |-> FALSE,
          out |-> Raise("requests." \o resp.exc, "", None, None)]
    ELSE IF resp.status_code >= 200 /\ resp.status_code < 300
    THEN [pc |-> "done", alias |-> call.alias, url |-> call.url, sent |-> call.sent,
          resp |-> resp, bodyRead |-> TRUE, out |-> Return(resp.body)]
    ELSE [pc |-> "done", alias |-> call.alias, url |-> call.url, sent |-> call.sent,
          resp |-> resp, bodyRead |-> FALSE,
          out |-> Raise("RuntimeError", "Could not connect to ", call.url, None)]

GetAuthRecv(call, resp) ==
    IF resp.kind = "error"
    THEN [pc |-> "done", alias |-> call.alias, url |-> call.url, sent |-> call.sent,
          resp |-> resp, bodyRead |-> FALSE,
          out |-> Raise("requests." \o resp.exc, "", None, None)]
    ELSE IF resp.status_code = 200
    THEN [pc |-> "done", alias |-> call.alias, url |-> call.url, sent |-> call.sent,
          resp |-> resp, bodyRead |-> TRUE, out |-> Return(resp.body)]
    ELSE [pc |-> "done", alias |-> call.alias, url |-> call.url, sent |-> call.sent,
          resp |-> resp, bodyRead |-> FALSE,
          out |-> Raise("RuntimeError", "Could not connect to ", call.url, None)]

(***************************************************************************)
(* __init__, lines 30-33: the attributes set, in order, until a KeyError   *)
(***************************************************************************)
InitAttributes(auth) ==
    IF auth.kind = "raise" \/ ~({"username", "password"} \subseteq DOMAIN auth.value)
    THEN [none |-> TRUE]
    ELSE IF ~({"host", "path"} \subseteq DOMAIN auth.value)
    THEN [_auth |-> <<auth.value.username, auth.value.password>>,
          _databaseName |-> "efd"]
    ELSE [_auth |-> <<auth.value.username, auth.value.password>>,
          _databaseName |-> "efd",
          _databaseUrl |-> UrlJoin(HttpsRoot(auth.value.host), auth.value.path)]

InitCompletes(auth) ==
    /\ auth.kind = "return"
    /\ {"username", "password", "host", "path"} \subseteq DOMAIN auth.value

(***************************************************************************)
(* query, lines 96-111                                                     *)
(***************************************************************************)
QueryRequest(obj, query) ==
    [method |-> "GET",
     url |-> UrlSlash(obj._databaseUrl, "query"),
     params |-> [db |-> obj._databaseName, q |-> query],
     auth |-> obj._auth,
     timeout |-> <<ConnectTimeout, ReadTimeout>>]

QueryError(query, cause) ==
    Raise("RuntimeError", "Could not read data from database with query: ", query,
          Some(cause))

QueryOutcome(query, resp) ==
    IF resp.kind = "error" THEN QueryError(query, "requests." \o resp.exc)
    ELSE IF RaisesForStatus(resp.status_code) THEN QueryError(query, "requests.HTTPError")
    ELSE Return(resp.body)

(***************************************************************************)
(* get_schema_dtypes (lines 142-159), get_fields (lines 126-127) and       *)
(* select_time_series (lines 232-240) after the query has answered         *)
(***************************************************************************)
SchemaQuery(topic_name) == <<"SHOW FIELD KEYS FROM \"", topic_name, "\"">>

SchemaOutcome(data) ==
    LET values == GetKey(GetFirst(GetKey(GetFirst(GetKey(data, "results")), "series")),
                         "values")
    IN  IF values.kind = "raise" THEN values ELSE Return(SchemaDtypes(values.value))

FieldsOutcome(dtypes) ==
    IF dtypes.kind = "raise" THEN dtypes ELSE Return(FieldNames(dtypes.value))

SelectOutcomeLastSeries(data) ==
    LET result == GetFirst(GetKey(data, "results"))
    IN  IF result.kind = "raise" THEN result
        ELSE IF "series" \notin DOMAIN result.value THEN Return(EmptyDataFrame)
        ELSE Return(ToDataframe(result.value.series[Len(result.value.series)]))

SelectOutcome(data) ==
    LET result == GetFirst(GetKey(data, "results"))
    IN  IF result.kind = "raise" THEN result
        ELSE IF "series" \notin DOMAIN result.value THEN Return(EmptyDataFrame)
        ELSE LET series == GetFirst(GetKey(result, "series"))
             IN  IF series.kind = "raise" THEN series
                 ELSE Return(ToDataframe(series.value))

\* the rest of a method once its single request has been answered
MethodOutcome(op, query, resp) ==
    CASE op = "query" -> QueryOutcome(query, resp)
      [] op = "get_schema_dtypes" -> SchemaOutcome(QueryOutcome(query, resp))
      [] op = "get_fields" -> FieldsOutcome(SchemaOutcome(QueryOutcome(query, resp)))
      [] op = "select_time_series" -> SelectOutcome(QueryOutcome(query, resp))

\* a method issues its request: requests.get is called once, at line 102
MethodSend(obj, op, args, query) ==
    [pc |-> "sent", op |-> op, args |-> args, query |-> query,
     sent |-> <<QueryRequest(obj, query)>>]

MethodRecvRetry(call, resp) ==
    IF resp.kind = "error" /\ Len(call.sent) < 2
    THEN [call EXCEPT !.sent = Append(call.sent, call.sent[1])]
    ELSE [pc |-> "done", op |-> call.op, args |-> call.args, query |-> call.query,
          sent |-> call.sent, resp |-> resp,
          out |-> MethodOutcome(call.op, call.query, resp)]

\* the answer arrives: the method finishes, by return or by exception
MethodRecv(call, resp) ==
    [pc |-> "done", op |-> call.op, args |-> call.args, query |-> call.query,
     sent |-> call.sent, resp |-> resp,
     out |-> MethodOutcome(call.op, call.query, resp)]

SelfAfterMethodRebind(obj) == [obj EXCEPT !._databaseName = "efd2"]

\* lines 96-240 assign no attribute of self
SelfAfterMethod(obj) == obj

(***************************************************************************)
(* The environment of the client: aliases, answers of the secrets          *)
(* endpoint, arguments of the methods, answers of the database             *)
(***************************************************************************)
Aliases == {"usdf_efd", "summit_efd"}

CredsUsdf ==
    [username |-> "efdreader", password |-> "pw1",
     host |-> "usdf-rsp.slac.stanford.edu",
     path |-> AbsPath(<<"influxdb-enterprise-data">>)]

CredsSummit ==
    [username |-> "efdreader", password |-> "pw2",
     host |-> "summit-lsp.lsst.codes",
     path |-> RelPath(<<"influxdb", "">>),
     port |-> "443"]

CredsNoPath ==
    [username |-> "efdreader", password |-> "pw3", host |-> "base-lsp.lsst.codes"]

ErrorBody == [error |-> "not found"]

AuthResponses ==
    {TransportError("ConnectionError")}
    \cup {Response(s, b) : s \in {200, 201, 404, 500},
                           b \in {CredsUsdf, CredsSummit, CredsNoPath, ErrorBody}}

RawQueries == {<<"SHOW MEASUREMENTS">>}

\* every provided/None combination of the three filters with fields = None,
\* and an explicit field list with all three filters
SelectArgs ==
    [topic_name : Topics,
     fields     : {None},
     start_time : {None, Some([scale |-> "utc", sec |-> 0])},
     end_time   : {None, Some([scale |-> "tai", sec |-> 97])},
     sal_index  : {None, Some(0)}]
    \cup
    [topic_name : Topics,
     fields     : {Some(<<"a", "b">>)},
     start_time : {Some([scale |-> "utc", sec |-> 0])},
     end_time   : {Some([scale |-> "tai", sec |-> 97])},
     sal_index  : {Some(0)}]

SeriesTime ==
    MkSeries(<<"time", "v">>, Some(RowsFor(<<"time", "v">>, MaxRows)), None, Some("topic"))

SeriesTagged ==
    MkSeries(<<"v", "time">>, Some(RowsFor(<<"v", "time">>, 1)),
             Some(<< <<"a", "x">> >>), Some("topic"))

SeriesNoTime ==
    MkSeries(<<"v", "w">>, Some(RowsFor(<<"v", "w">>, 1)),
             Some(<< <<"a", "x">> >>), Some("topic"))

HeldSeries == {SeriesTime, SeriesTagged, SeriesNoTime}

NoSeriesBody == [results |-> << [statement_id |-> 0] >>]

SeriesBody(series) == [results |-> << [statement_id |-> 0, series |-> series] >>]

SelectBodies ==
    {NoSeriesBody, ErrorBody, SeriesBody(<<SeriesTime>>), SeriesBody(<<SeriesNoTime>>),
     SeriesBody(<<SeriesTagged, SeriesTime>>)}

RawFields(n) ==
    [i \in 1..n |->
        CASE i = 1 -> <<"a", "float">>
          [] i = 2 -> <<"time", "string">>
          [] i = 3 -> <<"b", "boolean">>
          [] OTHER -> <<"c", "integer">>]

SchemaSeries(n) ==
    [name |-> "topic", columns |-> <<"fieldKey", "fieldType">>, values |-> RawFields(n)]

SchemaBodies ==
    {NoSeriesBody, [results |-> <<>>], SeriesBody(<<SchemaSeries(0)>>),
     SeriesBody(<<SchemaSeries(MaxFields)>>)}

BodiesFor(op) ==
    IF op \in {"get_schema_dtypes", "get_fields"} THEN SchemaBodies ELSE SelectBodies

\* a 3xx answer that requests does not follow (no Location) and that has a body
MultipleChoicesBody(op) ==
    IF op \in {"get_schema_dtypes", "get_fields"}
    THEN SeriesBody(<<SchemaSeries(MaxFields)>>)
    ELSE SeriesBody(<<SeriesTime>>)

DbResponses(op) ==
    {TransportError("Timeout")}
    \cup {Response(s, ErrorBody) : s \in {404, 500}}
    \cup {Response(200, b) : b \in BodiesFor(op)}
    \cup {Response(300, MultipleChoicesBody(op))}

(***************************************************************************)
(* EfdClient(efd_instance): __init__ calls _get_auth, which sends one GET  *)
(* to the secrets endpoint and blocks until it is answered                 *)
(***************************************************************************)
ConstructSend ==
    /\ phase = "new"
    /\ \E efd_instance \in Aliases : authCall' = GetAuthSend(efd_instance)
    /\ phase' = "resolving"
    /\ UNCHANGED <<self, calls, last, fnOp, fnIn, fnOut>>

ConstructRecv ==
    /\ phase = "resolving"
    /\ \E resp \in AuthResponses :
        LET call == GetAuthRecv(authCall, resp)
        IN  /\ authCall' = call
            /\ IF call.pc = "done"
               THEN /\ self' = InitAttributes(call.out)
                    /\ phase' = IF InitCompletes(call.out) THEN "ready" ELSE "failed"
               ELSE UNCHANGED <<self, phase>>
    /\ UNCHANGED <<calls, last, fnOp, fnIn, fnOut>>

(***************************************************************************)
(* Method calls on the constructed client, one per thread at a time        *)
(***************************************************************************)
CallQuery(t) ==
    /\ phase = "ready"
    /\ calls[t].pc = "idle"
    /\ \E query \in RawQueries :
        calls' = [calls EXCEPT ![t] = MethodSend(self, "query", [query |-> query], query)]
    /\ self' = SelfAfterMethod(self)
    /\ UNCHANGED <<phase, authCall, last, fnOp, fnIn, fnOut>>

CallGetSchemaDtypes(t) ==
    /\ phase = "ready"
    /\ calls[t].pc = "idle"
    /\ \E topic_name \in Topics :
        calls' = [calls EXCEPT ![t] =
                    MethodSend(self, "get_schema_dtypes", [topic_name |-> topic_name],
                               SchemaQuery(topic_name))]
    /\ self' = SelfAfterMethod(self)
    /\ UNCHANGED <<phase, authCall, last, fnOp, fnIn, fnOut>>

CallGetFields(t) ==
    /\ phase = "ready"
    /\ calls[t].pc = "idle"
    /\ \E topic_name \in Topics :
        calls' = [calls EXCEPT ![t] =
                    MethodSend(self, "get_fields", [topic_name |-> topic_name],
                               SchemaQuery(topic_name))]
    /\ self' = SelfAfterMethod(self)
    /\ UNCHANGED <<phase, authCall, last, fnOp, fnIn, fnOut>>

CallSelectTimeSeries(t) ==
    /\ phase = "ready"
    /\ calls[t].pc = "idle"
    /\ \E a \in SelectArgs :
        calls' = [calls EXCEPT ![t] =
                    MethodSend(self, "select_time_series", a,
                               SelectQuery(a.topic_name, a.fields, a.start_time,
                                           a.end_time, a.sal_index))]
    /\ self' = SelfAfterMethod(self)
    /\ UNCHANGED <<phase, authCall, last, fnOp, fnIn, fnOut>>

\* the database (or the transport) answers the request of thread t
Receive(t) ==
    /\ phase = "ready"
    /\ calls[t].pc = "sent"
    /\ \E resp \in DbResponses(calls[t].op) :
        LET call == MethodRecv(calls[t], resp)
        IN  IF call.pc = "done"
            THEN /\ last' = call
                 /\ calls' = [calls EXCEPT ![t] = Idle]
            ELSE /\ calls' = [calls EXCEPT ![t] = call]
                 /\ UNCHANGED last
    /\ self' = SelfAfterMethod(self)
    /\ UNCHANGED <<phase, authCall, fnOp, fnIn, fnOut>>

\* to_dataframe sends nothing: it runs to completion in one step
CallToDataframe(t) ==
    /\ phase = "ready"
    /\ calls[t].pc = "idle"
    /\ \E series \in HeldSeries :
        last' = [pc |-> "done", op |-> "to_dataframe", args |-> series,
                 argAfter |-> ToDataframeArgAfter(series), sent |-> <<>>,
                 out |-> Return(ToDataframe(series))]
    /\ self' = SelfAfterMethod(self)
    /\ UNCHANGED <<phase, authCall, calls, fnOp, fnIn, fnOut>>

Init ==
    /\ InitClient
    /\ fnOp = "none"
    /\ fnIn = None
    /\ fnOut = None

Next ==
    \/ ConstructSend
    \/ ConstructRecv
    \/ \E t \in Threads :
        \/ CallQuery(t)
        \/ CallGetSchemaDtypes(t)
        \/ CallGetFields(t)
        \/ CallSelectTimeSeries(t)
        \/ CallToDataframe(t)
        \/ Receive(t)

Spec == Init /\ [][Next]_vars

(***************************************************************************)
(* Properties of the pure parts (checked under SpecFn)                     *)
(***************************************************************************)
Provided(o) == ~IsNone(o)

\* the clause of each provided parameter, in the order start, end, salIndex
ProvidedClauses(in) ==
    (IF Provided(in.start_time)
     THEN << <<" time >= '", TimeIsot(TimeUtc(in.start_time.some)), "Z'">> >>
     ELSE <<>>)
    \o (IF Provided(in.end_time)
        THEN << <<" time <= '", TimeIsot(TimeUtc(in.end_time.some)), "Z'">> >>
        ELSE <<>>)
    \o (IF Provided(in.sal_index)
        THEN << <<" salIndex = ", ToString(in.sal_index.some)>> >>
        ELSE <<>>)

RECURSIVE JoinClauses(_)
JoinClauses(cl) ==
    IF Len(cl) = 0 THEN <<>>
    ELSE IF Len(cl) = 1 THEN cl[1]
    ELSE cl[1] \o <<" AND">> \o JoinClauses(Tail(cl))

SelectHead(in) ==
    <<"SELECT ">>
    \o (IF IsNone(in.fields) THEN <<"*">> ELSE Join(",", in.fields.some))
    \o <<" FROM \"", in.topic_name, "\"">>

CountOf(s, x) == Cardinality({i \in 1..Len(s) : s[i] = x})

\* C1: for each of the 8 provided/None combinations of start_time, end_time
\* and sal_index the query is the SELECT ... FROM head followed by nothing
\* (none provided) or by " WHERE" and the provided clauses in the order
\* time >=, time <=, salIndex =, with " AND" exactly between consecutive
\* clauses, never directly after WHERE and never at the end.
C1_WhereClauses ==
    fnOp = "select_query" =>
        LET cl == ProvidedClauses(fnIn)
            n == Len(fnOut)
        IN  /\ fnOut = SelectHead(fnIn)
                       \o (IF Len(cl) = 0 THEN <<>> ELSE <<" WHERE">> \o JoinClauses(cl))
            /\ (Len(cl) = 0 /\ IsNone(fnIn.fields)) =>
                   fnOut = <<"SELECT ", "*", " FROM \"", fnIn.topic_name, "\"">>
            /\ CountOf(fnOut, " WHERE") = (IF Len(cl) = 0 THEN 0 ELSE 1)
            /\ CountOf(fnOut, " AND") = (IF Len(cl) = 0 THEN 0 ELSE Len(cl) - 1)
            /\ fnOut[n] # " AND"
            /\ \A i \in 1..(n - 1) :
                   fnOut[i] \in {" WHERE", " AND"} => fnOut[i + 1] \notin {" WHERE", " AND"}

\* start_time and sal_index only: WHERE time >= '<iso>Z' AND salIndex = <n>
C1_Witness ==
    /\ fnOp = "select_query"
    /\ fnIn.start_time = Some([scale |-> "tai", sec |-> 97])
    /\ IsNone(fnIn.end_time)
    /\ fnIn.sal_index = Some(0)
    /\ IsNone(fnIn.fields)
    /\ fnOut = <<"SELECT ", "*", " FROM \"", "topic", "\"", " WHERE",
                 " time >= '", "2021-01-01T00:01:00.000", "Z'", " AND",
                 " salIndex = ", "0">>

\* C8: an empty fields list selects all fields, i.e. gives the query that
\* fields = None gives.
C8_EmptyFieldsSelectAll ==
    (fnOp = "select_query" /\ fnIn.fields = Some(<<>>)) =>
        fnOut = SelectQuery(fnIn.topic_name, None, fnIn.start_time, fnIn.end_time,
                            fnIn.sal_index)

\* C6: the schema starts with ("time", str), is one longer than the raw list,
\* keeps the raw fields in their order with float -> float64, integer ->
\* int64, string -> str, anything else -> object; get_fields gives the names
\* of that list in the same order.
C6_SchemaShape ==
    fnOp = "schema" =>
        LET d == fnOut.dtypes
        IN  /\ Len(d) = Len(fnIn) + 1
            /\ d[1] = <<"time", "str">>
            /\ \A i \in 1..Len(fnIn) :
                   /\ d[i + 1][1] = fnIn[i][1]
                   /\ fnIn[i][2] = "float" => d[i + 1][2] = "np.float64"
                   /\ fnIn[i][2] = "integer" => d[i + 1][2] = "np.int64"
                   /\ fnIn[i][2] = "string" => d[i + 1][2] = "str"
                   /\ fnIn[i][2] \notin {"float", "integer", "string"} =>
                          d[i + 1][2] = "object"
            /\ Len(fnOut.fields) = Len(d)
            /\ fnOut.fields[1] = "time"
            /\ \A i \in 1..Len(fnIn) : fnOut.fields[i + 1] = fnIn[i][1]

\* a raw list that already has a field called "time", and an unmapped type
C6_Witness ==
    /\ fnOp = "schema"
    /\ fnIn = << <<"time", "boolean">>, <<"a", "integer">> >>
    /\ fnOut.fields = <<"time", "time", "a">>

SeriesValues(series) == IF "values" \in DOMAIN series THEN series.values ELSE <<>>

HasTime(series) == Contains(series.columns, "time")

\* column k of the table holds v in every row
ConstantColumn(df, k, v) ==
    /\ Contains(df.columns, k)
    /\ \A i \in 1..Len(df.data) : df.data[i][PosOf(df.columns, k)] = v

Finished(op) == last.pc = "done" /\ last.op = op

\* the failure query raises: RuntimeError naming the query, chained to a cause
IsDatabaseReadError(out, query) ==
    /\ out.kind = "raise"
    /\ out.exc = "RuntimeError"
    /\ out.text = "Could not read data from database with query: "
    /\ out.arg = query
    /\ ~IsNone(out.cause)

\* C2 as stated: query fails with the database-read error on a transport
\* failure and on every status that is not 2xx, and returns the body only
\* after a 2xx status.
C2_FailsUnless2xx ==
    Finished("query") =>
        /\ (\/ last.resp.kind = "error"
            \/ last.resp.status_code \notin 200..299) =>
               IsDatabaseReadError(last.out, last.args.query)
        /\ last.out.kind = "return" =>
               /\ last.resp.kind = "response"
               /\ last.resp.status_code \in 200..299
               /\ last.out.value = last.resp.body

\* C2 amended: query fails with the database-read error (naming the query,
\* chained to the cause) on a transport failure and on every 4xx or 5xx
\* status; it returns the body unchanged only after a status that is neither,
\* which includes a 3xx answer that was not redirected.
C2_FailsOn4xx5xx ==
    Finished("query") =>
        /\ (\/ last.resp.kind = "error"
            \/ last.resp.status_code \in 400..599) =>
               IsDatabaseReadError(last.out, last.args.query)
        /\ last.out.kind = "return" =>
               /\ last.resp.kind = "response"
               /\ last.resp.status_code \notin 400..599
               /\ last.out.value = last.resp.body
        /\ (last.resp.kind = "response" /\ last.resp.status_code \in 200..399) =>
               last.out = Return(last.resp.body)

\* a 300 answer with a JSON body is returned to the caller
C2_Witness ==
    /\ Finished("query")
    /\ last.resp.kind = "response"
    /\ last.resp.status_code = 300
    /\ last.out = Return(SeriesBody(<<SeriesTime>>))

\* C3: _get_auth returns the body exactly when the status is 200; any other
\* status, other 2xx included, gives the RuntimeError "Could not connect to
\* <url>" for the requested URL, without the body having been read.
C3_Only200Returns ==
    (authCall.pc = "done" /\ authCall.resp.kind = "response") =>
        /\ Len(authCall.sent) = 1
        /\ authCall.sent[1].url =
               [scheme |-> "https", host |-> "roundtable.lsst.codes",
                path |-> <<"segwarides", "creds", authCall.alias>>]
        /\ authCall.resp.status_code = 200 <=> authCall.out.kind = "return"
        /\ authCall.resp.status_code = 200 =>
               /\ authCall.out.value = authCall.resp.body
               /\ authCall.bodyRead
        /\ authCall.resp.status_code # 200 =>
               /\ authCall.out.kind = "raise"
               /\ authCall.out.exc = "RuntimeError"
               /\ authCall.out.text = "Could not connect to "
               /\ authCall.out.arg = authCall.sent[1].url
               /\ ~authCall.bodyRead

\* status 201 with complete credentials in the body: still a failure
C3_Witness ==
    /\ authCall.pc = "done"
    /\ authCall.resp = Response(201, CredsUsdf)
    /\ authCall.out.kind = "raise"
    /\ phase = "failed"

QueryAnswered ==
    /\ last.resp.kind = "response"
    /\ ~RaisesForStatus(last.resp.status_code)
    /\ "results" \in DOMAIN last.resp.body
    /\ Len(last.resp.body.results) > 0

\* C7: whatever the arguments, select_time_series returns the empty table
\* (no rows, no columns) when results[0] has no "series" key, and otherwise
\* exactly to_dataframe(series[0]), ignoring further series.
C7_EmptyOrFirstSeries ==
    (Finished("select_time_series") /\ QueryAnswered) =>
        LET result == last.resp.body.results[1]
        IN  /\ last.out.kind = "return"
            /\ IF "series" \notin DOMAIN result
               THEN /\ Len(last.out.value.columns) = 0
                    /\ Len(last.out.value.data) = 0
                    /\ Len(last.out.value.index) = 0
               ELSE last.out.value = ToDataframe(result.series[1])

\* no "series" key, with fields and all three filters given
C7_Witness ==
    /\ Finished("select_time_series")
    /\ QueryAnswered
    /\ last.resp.body = NoSeriesBody
    /\ ~IsNone(last.args.fields)
    /\ ~IsNone(last.args.sal_index)
    /\ last.out = Return(DataFrame(<<>>, <<>>))

SecretsUrl(alias) ==
    [scheme |-> "https", host |-> "roundtable.lsst.codes",
     path |-> <<"segwarides", "creds", alias>>]

\* the single request of a method: to <base query URL>/query, not to the
\* secrets host
OneDatabaseRequest(call) ==
    /\ Len(call.sent) = 1
    /\ call.sent[1].url.host = authCall.out.value.host
    /\ call.sent[1].url.host # "roundtable.lsst.codes"
    /\ call.sent[1].url.path[Len(call.sent[1].url.path)] = "query"
    /\ call.sent[1].params.q = call.query

\* C9: construction sends exactly one request, to the secrets endpoint; each
\* query / get_schema_dtypes / get_fields / select_time_series invocation sends
\* exactly one request, to the database query endpoint; a failed request ends
\* the operation without a second one.
C9_OneRequestNoRetry ==
    /\ authCall.pc # "idle" =>
           /\ Len(authCall.sent) = 1
           /\ authCall.sent[1].url = SecretsUrl(authCall.alias)
    /\ \A t \in Threads : calls[t].pc # "idle" => OneDatabaseRequest(calls[t])
    /\ (last.pc = "done" /\ last.op # "to_dataframe") =>
           /\ OneDatabaseRequest(last)
           /\ (last.resp.kind = "error" \/ RaisesForStatus(last.resp.status_code)) =>
                  last.out.kind = "raise"

\* a transport failure ended a select_time_series; nothing is in flight
C9_Witness ==
    /\ Finished("select_time_series")
    /\ last.resp.kind = "error"
    /\ last.out.kind = "raise"
    /\ Len(last.sent) = 1
    /\ \A t \in Threads : calls[t].pc = "idle"
    /\ Len(authCall.sent) = 1

\* the query a method sends, from its arguments alone
QueryOfArgs(op, args) ==
    CASE op = "query" -> args.query
      [] op \in {"get_schema_dtypes", "get_fields"} -> SchemaQuery(args.topic_name)
      [] op = "select_time_series" ->
            SelectQuery(args.topic_name, args.fields, args.start_time, args.end_time,
                        args.sal_index)

C10_State ==
    /\ phase = "ready" =>
           /\ self._auth = <<authCall.out.value.username, authCall.out.value.password>>
           /\ self._databaseName = "efd"
           /\ self._databaseUrl =
                  UrlJoin(HttpsRoot(authCall.out.value.host), authCall.out.value.path)
    /\ (last.pc = "done" /\ last.op = "to_dataframe") =>
           /\ last.argAfter = last.args
           /\ last.out = Return(ToDataframe(last.args))
    /\ (last.pc = "done" /\ last.op # "to_dataframe") =>
           last.out = MethodOutcome(last.op, QueryOfArgs(last.op, last.args), last.resp)

C10_Step ==
    phase = "ready" => (phase' = "ready" /\ self' = self /\ authCall' = authCall)

\* C10: once constructed, the credentials, the database name "efd" and the
\* base query URL keep their construction-time values through every sequence
\* and interleaving of calls, failed or not; a call's result is determined by
\* its own arguments and its own response; to_dataframe leaves the series it
\* was given as it was.
C10_NothingMutated == [](C10_State) /\ [][C10_Step]_vars

\* one call has failed while another thread's call is still in flight
C10_Witness ==
    /\ phase = "ready"
    /\ last.pc = "done"
    /\ last.out.kind = "raise"
    /\ \E t \in Threads : calls[t].pc = "sent" /\ calls[t].op = "select_time_series"
    /\ self._databaseName = "efd"

====
